---- MODULE Spec2Model ----
(***************************************************************************)
(* State-machine model of the katgrapher.studio gallery page: the lightbox  *)
(* (dist/scripts/lightbox.js: initialisation, overlay open/close           *)
(* lifecycle, navigation cursor, deferred timers, focus trap, keyboard and *)
(* touch input), the gallery rendering (render.js) and the page's init and *)
(* error notices (dist/scripts/gallery.js).                                *)
(***************************************************************************)
EXTENDS Integers, Sequences, FiniteSets, TLC

(***************************************************************************)
(* Bounds of the model.                                                    *)
(***************************************************************************)
\* most timers pending at once
MaxTimers == 3
\* most focus-trap listeners accumulated on the overlay (one per open)
MaxTrapListeners == 2
\* most runs of the gallery page's init (page load plus retries)
MaxInitCalls == 2
\* most renderGallery calls awaiting their fetch at once
MaxRenders == 2
\* most error notices whose removal timer is pending at once
MaxNotices == 2
\* most times initCategoryFiltering has registered its click listeners
MaxFilterListeners == 2

(***************************************************************************)
(* The page: gallery items (.photo-item elements) and their <img> data.    *)
(* The code reads every attribute through ||, so an attribute that is      *)
(* absent is the empty string here.  Item 5 is an <img> with neither       *)
(* data-lightbox-src nor src.                                              *)
(***************************************************************************)
Items == 1..6

\* item 6 is a .photo-item without an <img>
HasImg(p) == p # 6

\* img.dataset.lightboxSrc
LightboxSrcAttr(p) ==
  CASE p = 1 -> "L1" [] p = 3 -> "L3" [] p = 4 -> "L4" [] OTHER -> ""

\* img.src
ImgSrcAttr(p) ==
  CASE p = 1 -> "S1" [] p = 2 -> "S2" [] p = 3 -> "S3" [] OTHER -> ""

\* img.dataset.lightboxCaption
LightboxCaptionAttr(p) ==
  CASE p = 1 -> "cap1" [] p = 4 -> "cap4" [] OTHER -> ""

\* img.alt
AltAttr(p) ==
  CASE p = 1 -> "alt1" [] p = 2 -> "alt2" [] p = 4 -> "alt4" [] p = 5 -> "alt5"
    [] OTHER -> ""

\* JavaScript a || b on strings
OrElse(a, b) == IF a # "" THEN a ELSE b

\* img.dataset.lightboxSrc || img.src
ItemSrc(p) == OrElse(LightboxSrcAttr(p), ImgSrcAttr(p))

\* img.dataset.lightboxCaption || img.alt || ''
ItemCaption(p) == OrElse(OrElse(LightboxCaptionAttr(p), AltAttr(p)), "")

\* renderings of #photo-grid the page can show
Galleries == { <<1, 5, 6, 2, 3, 4>> }

\* item arrays handed to lightboxAPI.open (elements that contain an <img>)
ApiPhotoLists == { <<>>, <<3>> }

\* an item array handed to lightboxAPI.open that mixes items with a source,
\* an <img> without one (5) and an item without an <img> (6)
PreloadPhotoLists == { <<1, 5, 2, 6, 3, 4>> }

\* start indices handed to lightboxAPI.open with the array photos: the
\* default 0 up to one past the end
ApiIndices(photos) == 0..Len(photos)

\* indices handed to lightboxAPI.goTo
GoToIndices == -1..4

\* image references and captions handed to lightboxAPI.open
ApiSrcs == { ItemSrc(3) }
ApiCaptions == { ItemCaption(3) }

\* focusable descendants of #lightbox, in document order
FocusableLists == { <<"lightbox-close">> }

\* overlays with one, two and three focusable descendants
TrapFocusableLists ==
  { <<"lightbox-close">>,
    <<"lightbox-close", "lightbox-prev">>,
    <<"lightbox-close", "lightbox-prev", "lightbox-next">> }

\* the elements initLightbox looks up by id
RequiredElements ==
  { "lightbox", "lightbox-image", "lightbox-caption", "lightbox-close" }

\* documents at page load: complete, or lacking one of the elements
ElementSets ==
  { RequiredElements } \cup { RequiredElements \ {e} : e \in RequiredElements }

\* data-category of the .category-filter buttons; 'all' is the URL without a
\* category parameter
Categories == { "all", "portraits", "macro" }

\* the elements renderGallery appends for the photos the CMS returns for a
\* category; no photo is in category macro
CategoryPhotos(c) ==
  CASE c = "all" -> <<1, 5, 6, 2, 3, 4>>
    [] c = "portraits" -> <<3, 4>>
    [] OTHER -> << >>

\* optional values: window properties that start undefined
None == << >>
Some(x) == << x >>
IsSome(o) == o # None
Val(o) == o[1]

VARIABLES
  gallery,               \* .photo-item elements in document order
  focusables,            \* focusable descendants of #lightbox
  reducedMotion,         \* (prefers-reduced-motion: reduce) matches
  present,               \* ids of the required elements the document has
  initCalls,             \* times initLightbox has run
  listenerSets,          \* times initLightbox has registered its listeners
  lightboxPhotos,        \* window.lightboxPhotos
  lightboxCurrentIndex,  \* window.lightboxCurrentIndex
  lastFocusedPhoto,      \* window.lastFocusedPhoto
  classList,             \* #lightbox class markers
  flexOpacity,           \* .flex child carries opacity-100
  imageSrc,              \* #lightbox-image src
  imageAlt,              \* #lightbox-image alt
  imageOpacity,          \* #lightbox-image style.opacity
  captionText,           \* #lightbox-caption textContent
  bodyOverflow,          \* document.body.style.overflow
  escapeListener,        \* handleEscapeKey registered on document
  trapListeners,         \* keydown listeners trapFocus added on #lightbox
  activeElement,         \* document.activeElement
  timers,                \* pending setTimeout callbacks, oldest first
  liveRegions,           \* number of aria-live nodes in document.body
  hints,                 \* preload links the last request appended to head
  announced,             \* messages the last request announced
  touch,                 \* closure state of initTouchSupport
  requestedSrc,          \* history: image reference the last call asked for
  configValid,           \* sanityConfig has projectId, dataset, apiVersion
  category,              \* the category parameter of the URL
  grid,                  \* what #photo-grid shows
  renders,               \* renderGallery calls awaiting their fetch
  notices,               \* error notices, in the order they were shown
  filterListeners,       \* click listeners on each .category-filter button
  initOutcome            \* what gallery.js init has reported

domVars == << classList, flexOpacity, imageSrc, imageAlt, imageOpacity,
              captionText, bodyOverflow, activeElement >>
navVars == << lightboxPhotos, lightboxCurrentIndex, lastFocusedPhoto >>
renderVars == << configValid, category, grid, renders, notices,
                 filterListeners, initOutcome >>
pageVars == << gallery, focusables, reducedMotion, present, renderVars >>
initVars == << initCalls, listenerSets >>
vars == << gallery, focusables, reducedMotion, present, initCalls,
           listenerSets, lightboxPhotos,
           lightboxCurrentIndex, lastFocusedPhoto, classList, flexOpacity,
           imageSrc, imageAlt, imageOpacity, captionText, bodyOverflow,
           escapeListener, trapListeners, activeElement, timers, liveRegions,
           hints, announced, touch, requestedSrc, configValid, category,
           grid, renders, notices, filterListeners, initOutcome >>
lightboxVars == << lightboxPhotos, lightboxCurrentIndex, lastFocusedPhoto,
                   classList, flexOpacity, imageSrc, imageAlt, imageOpacity,
                   captionText, bodyOverflow, escapeListener, trapListeners,
                   activeElement, timers, liveRegions, hints, announced,
                   touch, requestedSrc >>

\* the whole program state as one record, passed through the handlers
St == [ lightboxPhotos |-> lightboxPhotos,
        lightboxCurrentIndex |-> lightboxCurrentIndex,
        lastFocusedPhoto |-> lastFocusedPhoto,
        classList |-> classList,
        flexOpacity |-> flexOpacity,
        imageSrc |-> imageSrc,
        imageAlt |-> imageAlt,
        imageOpacity |-> imageOpacity,
        captionText |-> captionText,
        bodyOverflow |-> bodyOverflow,
        escapeListener |-> escapeListener,
        trapListeners |-> trapListeners,
        activeElement |-> activeElement,
        timers |-> timers,
        liveRegions |-> liveRegions,
        hints |-> hints,
        announced |-> announced ]

\* the state an open, close or navigation request starts from: nothing
\* emitted yet
Fresh == [St EXCEPT !.hints = << >>, !.announced = << >>]

\* the state a handler leaves behind
Becomes(s) ==
  /\ lightboxPhotos' = s.lightboxPhotos
  /\ lightboxCurrentIndex' = s.lightboxCurrentIndex
  /\ lastFocusedPhoto' = s.lastFocusedPhoto
  /\ classList' = s.classList
  /\ flexOpacity' = s.flexOpacity
  /\ imageSrc' = s.imageSrc
  /\ imageAlt' = s.imageAlt
  /\ imageOpacity' = s.imageOpacity
  /\ captionText' = s.captionText
  /\ bodyOverflow' = s.bodyOverflow
  /\ escapeListener' = s.escapeListener
  /\ trapListeners' = s.trapListeners
  /\ activeElement' = s.activeElement
  /\ timers' = s.timers
  /\ liveRegions' = s.liveRegions
  /\ hints' = s.hints
  /\ announced' = s.announced

(***************************************************************************)
(* Helper functions of lightbox.js, as functions from state to state.      *)
(***************************************************************************)
\* window.setTimeout(callback, delay): the callback is queued
SetTimeout(s, kind, delay, src, alt) ==
  [s EXCEPT !.timers =
     Append(@, [kind |-> kind, delay |-> delay, src |-> src, alt |-> alt])]

\* preloadAdjacentImages without the index !== currentIndex filter: the
\* displayed image is hinted too
preloadAdjacentImages_IncludesCurrent(currentIndex, photoItems) ==
  LET window == << currentIndex - 1, currentIndex, currentIndex + 1,
                   currentIndex + 2 >>
      preloadIndices ==
        SelectSeq(window,
                  LAMBDA index : /\ index >= 0
                                 /\ index < Len(photoItems))
      linked ==
        SelectSeq(preloadIndices,
                  LAMBDA index : /\ HasImg(photoItems[index + 1])
                                 /\ ItemSrc(photoItems[index + 1]) # "")
  IN [k \in 1..Len(linked) |-> ItemSrc(photoItems[linked[k] + 1])]

\* lightbox.js preloadAdjacentImages: the hrefs of the links appended to head
preloadAdjacentImages(currentIndex, photoItems) ==
  LET window == << currentIndex - 1, currentIndex, currentIndex + 1,
                   currentIndex + 2 >>
      preloadIndices ==
        SelectSeq(window,
                  LAMBDA index : /\ index >= 0
                                 /\ index < Len(photoItems)
                                 /\ index # currentIndex)
      linked ==
        SelectSeq(preloadIndices,
                  LAMBDA index : /\ HasImg(photoItems[index + 1])
                                 /\ ItemSrc(photoItems[index + 1]) # "")
  IN [k \in 1..Len(linked) |-> ItemSrc(photoItems[linked[k] + 1])]

\* lightbox.js announceToScreenReader: a live region that a timer removes
announceToScreenReader(s, message) ==
  SetTimeout([s EXCEPT !.liveRegions = @ + 1,
                       !.announced = Append(@, message)],
             "announce", 1000, "", "")

\* the template string `Image ${index + 1} of ${photos.length}: ${caption}`
AnnounceMessage(index, total, caption) == << index + 1, total, caption >>

\* the value of --lightbox-animation-duration in the computed style
CssAnimationDuration ==
  IF reducedMotion /\ listenerSets > 0 THEN "0ms" ELSE ""

\* duration.match(/(\d+)ms/) then parseInt, 300 when there is no match
ParseMs(duration) ==
  CASE duration = "0ms" -> 0
    [] duration = "300ms" -> 300
    [] OTHER -> 300

\* lightbox.js getAnimationDuration
getAnimationDuration ==
  IF "lightbox" \notin present THEN 300
  ELSE ParseMs(OrElse(CssAnimationDuration, "300ms"))

\* the elements openLightbox looks up by id
OverlayElements == { "lightbox", "lightbox-image", "lightbox-caption" }

\* lightbox.js trapFocus
trapFocus(s) ==
  IF Len(focusables) = 0
  THEN s
  ELSE [s EXCEPT !.activeElement = focusables[1],
                 !.trapListeners = @ + 1]

(***************************************************************************)
(* Overlay controller.                                                     *)
(***************************************************************************)
\* openLightbox running a full close/open cycle when the overlay is already
\* open: it starts the fade-out and schedules the hide before opening
openLightbox_FullCycle(s, src, caption, startIndex, photoItems) ==
  LET s0 == IF "visible" \in s.classList
            THEN SetTimeout([s EXCEPT !.classList = @ \ {"opacity-100"},
                                      !.flexOpacity = FALSE],
                            "hide", getAnimationDuration, "", "")
            ELSE s
      s1 == [s0 EXCEPT !.imageSrc = src,
                       !.imageAlt = caption,
                       !.captionText = caption,
                       !.lightboxPhotos = Some(photoItems),
                       !.lightboxCurrentIndex = Some(startIndex),
                       !.classList = (@ \ {"hidden"}) \cup {"visible"}]
      s2 == SetTimeout(s1, "fadeIn", 10, "", "")
      s3 == trapFocus(s2)
  IN IF ~(OverlayElements \subseteq present)
     THEN s
     ELSE [s3 EXCEPT !.bodyOverflow = "hidden",
                     !.escapeListener = TRUE,
                     !.hints = @ \o
                       preloadAdjacentImages(startIndex, photoItems)]

\* lightbox.js openLightbox
openLightbox(s, src, caption, startIndex, photoItems) ==
  LET s1 == [s EXCEPT !.imageSrc = src,
                      !.imageAlt = caption,
                      !.captionText = caption,
                      !.lightboxPhotos = Some(photoItems),
                      !.lightboxCurrentIndex = Some(startIndex),
                      !.classList = (@ \ {"hidden"}) \cup {"visible"}]
      s2 == SetTimeout(s1, "fadeIn", 10, "", "")
      s3 == trapFocus(s2)
  IN IF ~(OverlayElements \subseteq present)
     THEN s
     ELSE [s3 EXCEPT !.bodyOverflow = "hidden",
                     !.escapeListener = TRUE,
                     !.hints = @ \o
                       preloadAdjacentImages(startIndex, photoItems)]

\* closeLightbox without the already-closed guard
closeLightbox_NoGuard(s) ==
  LET s1 == [s EXCEPT !.classList = @ \ {"opacity-100"},
                      !.flexOpacity = FALSE]
      s2 == SetTimeout(s1, "hide", getAnimationDuration, "", "")
      s3 == [s2 EXCEPT !.bodyOverflow = "",
                       !.escapeListener = FALSE]
  IN IF s3.lastFocusedPhoto # "null"
     THEN [s3 EXCEPT !.activeElement = s3.lastFocusedPhoto,
                     !.lastFocusedPhoto = "null"]
     ELSE s3

\* lightbox.js closeLightbox
closeLightbox(s) ==
  IF "lightbox" \notin present \/ "visible" \notin s.classList
  THEN s
  ELSE LET s1 == [s EXCEPT !.classList = @ \ {"opacity-100"},
                           !.flexOpacity = FALSE]
           s2 == SetTimeout(s1, "hide", getAnimationDuration, "", "")
           s3 == [s2 EXCEPT !.bodyOverflow = "",
                            !.escapeListener = FALSE]
       IN IF s3.lastFocusedPhoto # "null"
          THEN [s3 EXCEPT !.activeElement = s3.lastFocusedPhoto,
                          !.lastFocusedPhoto = "null"]
          ELSE s3

(***************************************************************************)
(* Navigation state.                                                       *)
(***************************************************************************)
\* showPhoto announcing the zero-based index as the position
showPhoto_ZeroBased(s, index) ==
  LET photos == Val(s.lightboxPhotos)
      photoItem == photos[index + 1]
      src == ItemSrc(photoItem)
      caption == ItemCaption(photoItem)
      s1 == IF "lightbox-image" \in present
            THEN SetTimeout([s EXCEPT !.imageOpacity = "0"],
                            "swap", 150, src, caption)
            ELSE s
      s2 == [s1 EXCEPT !.captionText = IF "lightbox-caption" \in present
                                       THEN caption ELSE @,
                       !.lightboxCurrentIndex = Some(index),
                       !.hints = @ \o preloadAdjacentImages(index, photos)]
  IN IF ~HasImg(photoItem)
     THEN s
     ELSE announceToScreenReader(
            s2, AnnounceMessage(index - 1, Len(photos), caption))

\* lightbox.js navigateToIndex, from the item lookup on: content swap,
\* cursor update, preload and announcement
showPhoto(s, index) ==
  LET photos == Val(s.lightboxPhotos)
      photoItem == photos[index + 1]
      src == ItemSrc(photoItem)
      caption == ItemCaption(photoItem)
      s1 == IF "lightbox-image" \in present
            THEN SetTimeout([s EXCEPT !.imageOpacity = "0"],
                            "swap", 150, src, caption)
            ELSE s
      s2 == [s1 EXCEPT !.captionText = IF "lightbox-caption" \in present
                                       THEN caption ELSE @,
                       !.lightboxCurrentIndex = Some(index),
                       !.hints = @ \o preloadAdjacentImages(index, photos)]
  IN IF ~HasImg(photoItem)
     THEN s
     ELSE announceToScreenReader(
            s2, AnnounceMessage(index, Len(photos), caption))

\* navigateToIndex with the upper bound check off by one: the last index is
\* rejected
navigateToIndex_SkipsLast(s, index) ==
  IF \/ ~IsSome(s.lightboxPhotos)
     \/ index < 0
     \/ index >= Len(Val(s.lightboxPhotos)) - 1
  THEN s
  ELSE showPhoto(s, index)

\* navigateToIndex clamping an index past the end to the last item instead of
\* ignoring it
navigateToIndex_Clamps(s, index) ==
  IF \/ ~IsSome(s.lightboxPhotos)
     \/ index < 0
     \/ Len(Val(s.lightboxPhotos)) = 0
  THEN s
  ELSE showPhoto(s, IF index >= Len(Val(s.lightboxPhotos))
                    THEN Len(Val(s.lightboxPhotos)) - 1
                    ELSE index)

\* lightbox.js navigateToIndex
navigateToIndex(s, index) ==
  IF \/ ~IsSome(s.lightboxPhotos)
     \/ index < 0
     \/ index >= Len(Val(s.lightboxPhotos))
  THEN s
  ELSE showPhoto(s, index)

\* window.lightboxCurrentIndex || 0
CurrentIndexOrZero(s) ==
  IF IsSome(s.lightboxCurrentIndex) THEN Val(s.lightboxCurrentIndex) ELSE 0

\* navigatePrevious without the empty-list guard, storing the index it
\* computed before delegating
navigatePrevious_StoresFirst(s) ==
  LET total == IF IsSome(s.lightboxPhotos) THEN Len(Val(s.lightboxPhotos))
               ELSE 0
      currentIndex == CurrentIndexOrZero(s)
      prevIndex == IF currentIndex > 0 THEN currentIndex - 1 ELSE total - 1
  IN navigateToIndex([s EXCEPT !.lightboxCurrentIndex = Some(prevIndex)],
                     prevIndex)

\* lightbox.js navigatePrevious
navigatePrevious(s) ==
  IF ~IsSome(s.lightboxPhotos) \/ Len(Val(s.lightboxPhotos)) = 0
  THEN s
  ELSE LET photos == Val(s.lightboxPhotos)
           currentIndex == CurrentIndexOrZero(s)
           prevIndex == IF currentIndex > 0 THEN currentIndex - 1
                        ELSE Len(photos) - 1
       IN navigateToIndex(s, prevIndex)

\* navigateNext without the wraparound: past the end it asks for index n
navigateNext_NoWrap(s) ==
  IF ~IsSome(s.lightboxPhotos) \/ Len(Val(s.lightboxPhotos)) = 0
  THEN s
  ELSE navigateToIndex(s, CurrentIndexOrZero(s) + 1)

\* lightbox.js navigateNext
navigateNext(s) ==
  IF ~IsSome(s.lightboxPhotos) \/ Len(Val(s.lightboxPhotos)) = 0
  THEN s
  ELSE LET photos == Val(s.lightboxPhotos)
           currentIndex == CurrentIndexOrZero(s)
           nextIndex == IF currentIndex < Len(photos) - 1 THEN currentIndex + 1
                        ELSE 0
       IN navigateToIndex(s, nextIndex)

(***************************************************************************)
(* Read-only accessors of lightboxAPI.                                     *)
(***************************************************************************)
\* lightboxAPI.isOpen
isOpen == "lightbox" \in present /\ "visible" \in classList

\* lightboxAPI.getCurrentIndex
getCurrentIndex ==
  IF IsSome(lightboxCurrentIndex) THEN Val(lightboxCurrentIndex) ELSE 0

\* lightboxAPI.getTotalPhotos
getTotalPhotos ==
  IF IsSome(lightboxPhotos) THEN Len(Val(lightboxPhotos)) ELSE 0

(***************************************************************************)
(* Input router.                                                           *)
(***************************************************************************)
Keys == { "ArrowLeft", "ArrowRight", "Home", "End", "Escape", "a" }

\* handleLightboxKeydown with the two arrow keys exchanged
handleLightboxKeydown_ArrowsSwapped(s, key) ==
  IF "lightbox" \notin present \/ "visible" \notin s.classList
  THEN s
  ELSE CASE key = "ArrowLeft" -> navigateNext(s)
         [] key = "ArrowRight" -> navigatePrevious(s)
         [] key = "Home" -> navigateToIndex(s, 0)
         [] key = "End" -> navigateToIndex(s, Len(Val(s.lightboxPhotos)) - 1)
         [] key = "Escape" -> closeLightbox(s)
         [] OTHER -> s

\* lightbox.js handleLightboxKeydown
handleLightboxKeydown(s, key) ==
  IF "lightbox" \notin present \/ "visible" \notin s.classList
  THEN s
  ELSE CASE key = "ArrowLeft" -> navigatePrevious(s)
         [] key = "ArrowRight" -> navigateNext(s)
         [] key = "Home" -> navigateToIndex(s, 0)
         [] key = "End" -> navigateToIndex(s, Len(Val(s.lightboxPhotos)) - 1)
         [] key = "Escape" -> closeLightbox(s)
         [] OTHER -> s

\* lightbox.js handleEscapeKey
handleEscapeKey(s, key) ==
  IF key = "Escape" THEN closeLightbox(s) ELSE s

\* one keydown event on document: the listeners run in registration order,
\* and a listener removed by an earlier one is not run
DispatchKeydown(s, key) ==
  LET s1 == IF listenerSets > 0 THEN handleLightboxKeydown(s, key) ELSE s
  IN IF s.escapeListener /\ s1.escapeListener
     THEN handleEscapeKey(s1, key)
     ELSE s1

\* touchend listener of initTouchSupport, on the closure variables t
SwipeOf(t) ==
  LET deltaX == t.currentX - t.startX
      deltaY == t.currentY - t.startY
      Abs(x) == IF x < 0 THEN -x ELSE x
  IN IF t.startX = 0 \/ t.startY = 0 THEN "none"
     ELSE IF Abs(deltaX) > Abs(deltaY) /\ Abs(deltaX) > 50
          THEN IF deltaX > 0 THEN "previous" ELSE "next"
          ELSE "none"

(***************************************************************************)
(* Initial state: the page as loaded, after initLightbox has run.          *)
(***************************************************************************)
\* touch coordinates (clientX, clientY) the gestures are drawn from
TouchStarts == { <<100, 100>>, <<0, 100>> }
TouchMoves == { <<160, 110>>, <<40, 110>>, <<110, 160>> }

\* nothing opened yet: the window properties are undefined, the overlay is
\* hidden, no timer is pending
Loaded ==
  /\ lightboxPhotos = None
  /\ lightboxCurrentIndex = None
  /\ lastFocusedPhoto = "null"
  /\ classList = {"hidden"}
  /\ flexOpacity = FALSE
  /\ imageSrc = ""
  /\ imageAlt = ""
  /\ imageOpacity = ""
  /\ captionText = ""
  /\ bodyOverflow = ""
  /\ escapeListener = FALSE
  /\ trapListeners = 0
  /\ activeElement = "body"
  /\ timers = << >>
  /\ liveRegions = 0
  /\ hints = << >>
  /\ announced = << >>
  /\ touch = [active |-> FALSE, startX |-> 0, startY |-> 0,
              currentX |-> 0, currentY |-> 0]
  /\ requestedSrc = ""

\* the complete document, initLightbox has run
Initialized ==
  /\ present = RequiredElements
  /\ initCalls = 1
  /\ listenerSets = 1

\* gallery.js init has run and the first rendering is complete: the grid
\* shows the photos of every category, no fetch and no notice is pending
Rendered ==
  /\ configValid = TRUE
  /\ category = "all"
  /\ grid = "photos"
  /\ renders = << >>
  /\ notices = << >>
  /\ filterListeners = 1
  /\ initOutcome = "success"

\* the grid holds its items, gallery.js init has not run yet
NotStarted ==
  /\ configValid = TRUE
  /\ category = "all"
  /\ grid = "photos"
  /\ renders = << >>
  /\ notices = << >>
  /\ filterListeners = 0
  /\ initOutcome = "none"

Init ==
  /\ gallery \in Galleries
  /\ focusables \in FocusableLists
  /\ reducedMotion \in BOOLEAN
  /\ Initialized
  /\ Rendered
  /\ Loaded

\* the page with one of the larger overlays
FocusInit ==
  /\ gallery \in Galleries
  /\ focusables \in TrapFocusableLists
  /\ reducedMotion \in BOOLEAN
  /\ Initialized
  /\ Rendered
  /\ Loaded

\* the page at load time, before gallery.js calls initLightbox
StartupInit ==
  /\ gallery \in Galleries
  /\ focusables \in FocusableLists
  /\ reducedMotion \in BOOLEAN
  /\ present \in ElementSets
  /\ initCalls = 0
  /\ listenerSets = 0
  /\ NotStarted
  /\ Loaded

\* the initialised and rendered page, animations enabled
RerenderInit ==
  /\ gallery \in Galleries
  /\ focusables \in FocusableLists
  /\ reducedMotion = FALSE
  /\ Initialized
  /\ Rendered
  /\ Loaded

\* gallery.html as served, before gallery.js runs: the grid holds its
\* placeholder, the URL may name a category, and scripts/config.js may
\* have lost a required field
RenderInit ==
  /\ gallery = << >>
  /\ focusables \in FocusableLists
  /\ reducedMotion = FALSE
  /\ present = RequiredElements
  /\ initCalls = 0
  /\ listenerSets = 0
  /\ configValid \in BOOLEAN
  /\ category \in Categories
  /\ grid = "placeholder"
  /\ renders = << >>
  /\ notices = << >>
  /\ filterListeners = 0
  /\ initOutcome = "none"
  /\ Loaded

\* the bounds of the model: room for the timers and listeners a step adds
Fits(s) ==
  /\ Len(s.timers) <= MaxTimers
  /\ s.trapListeners <= MaxTrapListeners

\* a handler ran to completion and left state s
Handler(s) ==
  \E r \in {s} :
    /\ Fits(r)
    /\ Becomes(r)

\* the image reference a navigation handler that left state s asked for:
\* that of the item it moved to, if it moved
NavRequested(s) ==
  IF s.announced # << >>
  THEN ItemSrc(Val(s.lightboxPhotos)[Val(s.lightboxCurrentIndex) + 1])
  ELSE requestedSrc

\* a handler that may navigate ran to completion and left state s
NavHandler(s) ==
  \E r \in {s} :
    /\ Handler(r)
    /\ requestedSrc' = NavRequested(r)

(***************************************************************************)
(* Events.                                                                 *)
(***************************************************************************)
\* position of item p in list, as Array.prototype.indexOf (-1: absent)
IndexOf(list, p) ==
  IF \E k \in 1..Len(list) : list[k] = p
  THEN (CHOOSE k \in 1..Len(list) :
          list[k] = p /\ \A j \in 1..(k - 1) : list[j] # p) - 1
  ELSE -1

\* the click listener of initPhotoClickHandlers, for a click on photoItem
photoClick(s, photoItem) ==
  IF ~HasImg(photoItem)
  THEN s
  ELSE LET src == ItemSrc(photoItem)
           caption == ItemCaption(photoItem)
           allPhotoItems ==
             SelectSeq(gallery, LAMBDA item : HasImg(item) /\ ItemSrc(item) # "")
           clickedIndex == IndexOf(allPhotoItems, photoItem)
       IN openLightbox(s, src, caption, clickedIndex, allPhotoItems)

\* lightbox.js initLightbox with the check of the close control left out
initLightbox_IgnoresClose(n) ==
  IF ~(OverlayElements \subseteq present) THEN n ELSE n + 1

\* lightbox.js initLightbox, on the number of listener sets registered
initLightbox(n) ==
  IF present # RequiredElements THEN n ELSE n + 1

\* gallery.js init calls initLightbox when the DOM is ready
InitLightbox ==
  /\ initCalls = 0
  /\ initCalls' = initCalls + 1
  /\ listenerSets' = initLightbox(listenerSets)
  /\ Becomes(St)
  /\ UNCHANGED << pageVars, touch, requestedSrc >>

\* the state the listeners of a user event start from; the event changes
\* nothing when no listener is registered for it
Heard(listening) == IF listening THEN Fresh ELSE St

\* the n click listeners on document, one per initPhotoClickHandlers call,
\* run one after the other
RECURSIVE photoClicks(_, _, _)
photoClicks(s, photoItem, n) ==
  IF n = 0 THEN s
  ELSE photoClicks(photoClick(s, photoItem), photoItem, n - 1)

\* n anonymous listeners that call closeLightbox run one after the other
RECURSIVE closeLightboxTimes(_, _)
closeLightboxTimes(s, n) ==
  IF n = 0 THEN s ELSE closeLightboxTimes(closeLightbox(s), n - 1)

\* gallery.js retryInitialization: init runs again and calls initLightbox
RetryInit ==
  /\ initCalls >= 1
  /\ initCalls < MaxInitCalls
  /\ initCalls' = initCalls + 1
  /\ listenerSets' = initLightbox(listenerSets)
  /\ Becomes(St)
  /\ UNCHANGED << pageVars, touch, requestedSrc >>

\* a click on the k-th gallery item
ClickPhoto(k) ==
  /\ Handler(IF listenerSets > 0
             THEN photoClicks(Fresh, gallery[k], listenerSets)
             ELSE St)
  /\ requestedSrc' = IF listenerSets > 0 /\ HasImg(gallery[k])
                     THEN ItemSrc(gallery[k])
                     ELSE requestedSrc
  /\ UNCHANGED << pageVars, initVars, touch >>

\* lightboxAPI.open
ApiOpen(src, caption, index, photos) ==
  /\ Handler(openLightbox(Fresh, src, caption, index, photos))
  /\ requestedSrc' = src
  /\ UNCHANGED << pageVars, initVars, touch >>

\* lightboxAPI.close
ApiClose ==
  /\ Handler(closeLightbox(Fresh))
  /\ UNCHANGED << pageVars, initVars, touch, requestedSrc >>

\* a click on the close control of the displayed overlay: closeLightbox is
\* registered by name, so once however often initLightbox ran
CloseClick ==
  /\ "lightbox" \in present
  /\ "hidden" \notin classList
  /\ Handler(IF listenerSets > 0 THEN closeLightbox(Fresh) ELSE St)
  /\ UNCHANGED << pageVars, initVars, touch, requestedSrc >>

\* a click on the backdrop of the displayed overlay: one anonymous listener
\* per initLightboxEvents call
BackdropClick ==
  /\ "lightbox" \in present
  /\ "hidden" \notin classList
  /\ Handler(IF listenerSets > 0
             THEN closeLightboxTimes(Fresh, listenerSets)
             ELSE St)
  /\ UNCHANGED << pageVars, initVars, touch, requestedSrc >>

\* the visibilitychange listener, when the document becomes hidden
VisibilityChange ==
  /\ Handler(closeLightboxTimes(Heard(listenerSets > 0), listenerSets))
  /\ UNCHANGED << pageVars, initVars, touch, requestedSrc >>

\* lightboxAPI.next
ApiNext ==
  /\ NavHandler(navigateNext(Fresh))
  /\ UNCHANGED << pageVars, initVars, touch >>

\* lightboxAPI.previous
ApiPrevious ==
  /\ NavHandler(navigatePrevious(Fresh))
  /\ UNCHANGED << pageVars, initVars, touch >>

\* lightboxAPI.goTo
ApiGoTo(index) ==
  /\ NavHandler(navigateToIndex(Fresh, index))
  /\ UNCHANGED << pageVars, initVars, touch >>

\* a keydown event on the document
KeyDown(key) ==
  /\ NavHandler(DispatchKeydown(Heard(listenerSets > 0 \/ escapeListener),
                                key))
  /\ UNCHANGED << pageVars, initVars, touch >>

\* #lightbox-image is in the document and not inside a hidden overlay
ImageDisplayed ==
  /\ "lightbox-image" \in present
  /\ "lightbox" \in present => "hidden" \notin classList

\* touchstart on the displayed lightbox image
TouchStart(pt) ==
  /\ ImageDisplayed
  /\ ~touch.active
  /\ touch' = IF listenerSets > 0
              THEN [active |-> TRUE, startX |-> pt[1], startY |-> pt[2],
                    currentX |-> pt[1], currentY |-> pt[2]]
              ELSE [touch EXCEPT !.active = TRUE]
  /\ Becomes(St)
  /\ UNCHANGED << pageVars, initVars, requestedSrc >>

\* touchmove of the touch in progress
TouchMove(pt) ==
  /\ touch.active
  /\ touch' = IF listenerSets > 0
              THEN [touch EXCEPT !.currentX = pt[1], !.currentY = pt[2]]
              ELSE touch
  /\ Becomes(St)
  /\ UNCHANGED << pageVars, initVars, requestedSrc >>

\* touchend of the touch in progress
TouchEnd ==
  /\ touch.active
  /\ LET swipe == IF listenerSets > 0 THEN SwipeOf(touch) ELSE "none"
         s == CASE swipe = "previous" -> navigatePrevious(Fresh)
                [] swipe = "next" -> navigateNext(Fresh)
                [] OTHER -> Heard(listenerSets > 0)
     IN NavHandler(s)
  /\ touch' = IF listenerSets = 0 \/ touch.startX = 0 \/ touch.startY = 0
              THEN [touch EXCEPT !.active = FALSE]
              ELSE [active |-> FALSE, startX |-> 0, startY |-> 0,
                    currentX |-> 0, currentY |-> 0]
  /\ UNCHANGED << pageVars, initVars >>

(***************************************************************************)
(* Focus trap: a Tab press on a focusable descendant of the displayed      *)
(* overlay.  An event is the state together with its defaultPrevented flag.*)
(***************************************************************************)
\* the keydown listener of trapFocus ignoring shiftKey
trapKeydown_IgnoresShift(e, shiftKey) ==
  LET firstFocusable == focusables[1]
      lastFocusable == focusables[Len(focusables)]
  IN IF e.s.activeElement = lastFocusable
     THEN [s |-> [e.s EXCEPT !.activeElement = firstFocusable],
           prevented |-> TRUE]
     ELSE e

\* the keydown listener trapFocus adds to #lightbox, for key 'Tab'
trapKeydown(e, shiftKey) ==
  LET firstFocusable == focusables[1]
      lastFocusable == focusables[Len(focusables)]
  IN IF shiftKey
     THEN IF e.s.activeElement = firstFocusable
          THEN [s |-> [e.s EXCEPT !.activeElement = lastFocusable],
                prevented |-> TRUE]
          ELSE e
     ELSE IF e.s.activeElement = lastFocusable
          THEN [s |-> [e.s EXCEPT !.activeElement = firstFocusable],
                prevented |-> TRUE]
          ELSE e

\* the n listeners accumulated on #lightbox run one after the other
RECURSIVE RunTrapListeners(_, _, _)
RunTrapListeners(e, n, shiftKey) ==
  IF n = 0 THEN e
  ELSE RunTrapListeners(trapKeydown(e, shiftKey), n - 1, shiftKey)

\* sequential focus navigation, the default action of Tab: the next or
\* previous focusable element in document order, outside the overlay past
\* either end
TabDefault(s, shiftKey) ==
  LET i == IndexOf(focusables, s.activeElement) + 1
  IN IF shiftKey
     THEN IF i > 1 THEN focusables[i - 1] ELSE "outside"
     ELSE IF i < Len(focusables) THEN focusables[i + 1] ELSE "outside"

\* a keydown of Tab (with or without Shift) on the focused descendant: the
\* listeners on #lightbox, those on document, then the default action
TabKey(shiftKey) ==
  /\ "hidden" \notin classList
  /\ \E i \in 1..Len(focusables) : activeElement = focusables[i]
  /\ LET e == RunTrapListeners([s |-> Fresh, prevented |-> FALSE],
                               trapListeners, shiftKey)
         s1 == DispatchKeydown(e.s, "Tab")
     IN Handler(IF e.prevented
                THEN s1
                ELSE [s1 EXCEPT !.activeElement = TabDefault(s1, shiftKey)])
  /\ UNCHANGED << pageVars, initVars, touch, requestedSrc >>

(***************************************************************************)
(* Timers.  A pending callback runs once every callback queued before it   *)
(* with an equal or shorter delay has run.                                 *)
(***************************************************************************)
CanFire(i) ==
  /\ i \in 1..Len(timers)
  /\ \A j \in 1..(i - 1) : timers[j].delay > timers[i].delay

RemoveAt(seq, i) == SubSeq(seq, 1, i - 1) \o SubSeq(seq, i + 1, Len(seq))

\* the callbacks, with the hide callback leaving the open marker in place
timerCallback_KeepsMarker(s, t) ==
  CASE t.kind = "fadeIn" ->
         [s EXCEPT !.classList = @ \cup {"opacity-100"},
                   !.flexOpacity = TRUE]
    [] t.kind = "hide" ->
         [s EXCEPT !.classList = @ \cup {"hidden"}]
    [] t.kind = "swap" ->
         [s EXCEPT !.imageSrc = t.src,
                   !.imageAlt = t.alt,
                   !.imageOpacity = "1"]
    [] t.kind = "announce" ->
         [s EXCEPT !.liveRegions = @ - 1]

\* the body of the callback of timer t
timerCallback(s, t) ==
  CASE t.kind = "fadeIn" ->
         [s EXCEPT !.classList = @ \cup {"opacity-100"},
                   !.flexOpacity = TRUE]
    [] t.kind = "hide" ->
         [s EXCEPT !.classList = (@ \cup {"hidden"}) \ {"visible"}]
    [] t.kind = "swap" ->
         [s EXCEPT !.imageSrc = t.src,
                   !.imageAlt = t.alt,
                   !.imageOpacity = "1"]
    [] t.kind = "announce" ->
         [s EXCEPT !.liveRegions = @ - 1]

FireTimer(i) ==
  /\ CanFire(i)
  /\ Handler(timerCallback([St EXCEPT !.timers = RemoveAt(@, i)], timers[i]))
  /\ UNCHANGED << pageVars, initVars, touch, requestedSrc >>

\* the oldest pending callback runs
FireOldest == FireTimer(1)

(***************************************************************************)
(* Gallery rendering (render.js) and the page's init (gallery.js).         *)
(***************************************************************************)
\* the delay of the removal timer of a notice: showErrorMessage (load) and
\* handleInitializationError (init)
NoticeDelay(kind) == IF kind = "load" THEN 5000 ELSE 10000

\* ids that tell the notices on the page apart
NoticeIds == 1..MaxNotices

\* the notices whose removal timer has not fired yet
LiveNotices(queue) == SelectSeq(queue, LAMBDA n : n.timer)

\* showErrorMessage / handleInitializationError: the notice is appended to
\* body and its removal timer is queued (notices whose timer has fired are
\* forgotten)
showNotice(queue, kind) ==
  LET live == LiveNotices(queue)
      used == { live[i].id : i \in 1..Len(live) }
      id == CHOOSE n \in NoticeIds \ used : \A m \in NoticeIds \ used : n <= m
  IN Append(live, [id |-> id, kind |-> kind, attached |-> TRUE,
                   timer |-> TRUE, dismissed |-> FALSE, removeCalls |-> 0])

\* room for one more notice
NoticeFits == Len(LiveNotices(notices)) < MaxNotices

\* the x button of a notice on screen: this.parentElement.parentElement
\* .remove()
DismissNotice(i) ==
  /\ i \in 1..Len(notices)
  /\ notices[i].attached
  /\ notices' = [notices EXCEPT ![i].attached = FALSE,
                                ![i].dismissed = TRUE,
                                ![i].removeCalls = @ + 1]
  /\ UNCHANGED << gallery, focusables, reducedMotion, present, initVars,
                  lightboxVars, configValid, category, grid, renders,
                  filterListeners, initOutcome >>

\* the removal callback removing the notice whether or not it is still in
\* the document
noticeTimeout_NoGuard(n) ==
  [n EXCEPT !.timer = FALSE, !.attached = FALSE, !.removeCalls = @ + 1]

\* the removal callback: if (errorDiv.parentNode) errorDiv.remove()
noticeTimeout(n) ==
  IF n.attached
  THEN [n EXCEPT !.timer = FALSE, !.attached = FALSE, !.removeCalls = @ + 1]
  ELSE [n EXCEPT !.timer = FALSE]

\* the removal timer of notice i fires: every notice shown before it with
\* an equal or shorter delay has had its timer fire
NoticeTimer(i) ==
  /\ i \in 1..Len(notices)
  /\ notices[i].timer
  /\ \A j \in 1..(i - 1) :
       notices[j].timer =>
         NoticeDelay(notices[j].kind) > NoticeDelay(notices[i].kind)
  /\ notices' = [notices EXCEPT ![i] = noticeTimeout(@)]
  /\ UNCHANGED << gallery, focusables, reducedMotion, present, initVars,
                  lightboxVars, configValid, category, grid, renders,
                  filterListeners, initOutcome >>

\* render.js renderGallery up to its await, called n times in a row for
\* the URL category c: the grid shows the loading indicator and n fetches
\* are in flight
StartRenders(n, c, byInit) ==
  /\ Len(renders) + n <= MaxRenders
  /\ renders' = renders \o [k \in 1..n |-> [category |-> c, byInit |-> byInit]]
  /\ grid' = IF n > 0 THEN "loading" ELSE grid
  /\ gallery' = IF n > 0 THEN << >> ELSE gallery

\* gallery.js init on DOMContentLoaded.  initRendering returns undefined
\* without waiting for initGalleryPage, so the await in init resumes in a
\* microtask, before any fetch response can be delivered: initLoadMore and
\* the success report belong to the same step
GalleryInit ==
  /\ initOutcome = "none"
  /\ initCalls = 0
  /\ IF ~configValid
     THEN /\ NoticeFits
          /\ notices' = showNotice(notices, "init")
          /\ initOutcome' = "failed"
          /\ UNCHANGED << gallery, grid, renders, filterListeners, initVars >>
     ELSE /\ initCalls' = initCalls + 1
          /\ listenerSets' = initLightbox(listenerSets)
          /\ filterListeners' = filterListeners + 1
          /\ StartRenders(1, category, TRUE)
          /\ initOutcome' = "success"
          /\ UNCHANGED notices
  /\ UNCHANGED << focusables, reducedMotion, present, lightboxVars,
                  configValid, category >>

\* a click on the .category-filter button of category c: each registered
\* listener updates the URL and calls renderGallery
CategoryClick(c) ==
  /\ filterListeners > 0
  /\ category' = c
  /\ StartRenders(filterListeners, c, FALSE)
  /\ UNCHANGED << focusables, reducedMotion, present, initVars, lightboxVars,
                  configValid, notices, filterListeners, initOutcome >>

\* render.js initRendering on the gallery page, run again: the filter
\* listeners are registered once more and the gallery is rendered
initRenderingAgain ==
  /\ filterListeners < MaxFilterListeners
  /\ filterListeners' = filterListeners + 1
  /\ StartRenders(1, category', FALSE)

\* window.reloadGallery and the Ctrl/Meta+L shortcut: initRendering()
ReloadGallery ==
  /\ initOutcome = "success"
  /\ category' = category
  /\ initRenderingAgain
  /\ UNCHANGED << focusables, reducedMotion, present, initVars, lightboxVars,
                  configValid, notices, initOutcome >>

\* popstate: the browser moved to the history entry of category c;
\* initRendering runs if the URL names a category
Popstate(c) ==
  /\ initOutcome = "success"
  /\ c # category
  /\ category' = c
  /\ IF c # "all"
     THEN initRenderingAgain
     ELSE UNCHANGED << gallery, grid, renders, filterListeners >>
  /\ UNCHANGED << focusables, reducedMotion, present, initVars, lightboxVars,
                  configValid, notices, initOutcome >>

\* the fetches of the i-th pending renderGallery call complete; responses
\* arrive in any order.  ok: the loading indicator is cleared and the
\* photos, or the empty-category message, are shown.  Otherwise fetchPhotos
\* rethrows and the catch block shows a notice
FetchResolves(i, ok) ==
  /\ i \in 1..Len(renders)
  /\ renders' = RemoveAt(renders, i)
  /\ IF ok
     THEN /\ gallery' = CategoryPhotos(renders[i].category)
          /\ grid' = IF CategoryPhotos(renders[i].category) = << >>
                     THEN "empty" ELSE "photos"
          /\ UNCHANGED notices
     ELSE /\ NoticeFits
          /\ notices' = showNotice(notices, "load")
          /\ UNCHANGED << gallery, grid >>
  /\ UNCHANGED << focusables, reducedMotion, present, initVars, lightboxVars,
                  configValid, category, filterListeners, initOutcome >>

\* the lightbox driven by clicks, keys, the public API and timers
Next ==
  \/ \E src \in ApiSrcs, caption \in ApiCaptions, photos \in ApiPhotoLists :
       \E index \in ApiIndices(photos) : ApiOpen(src, caption, index, photos)
  \/ \E k \in 1..Len(gallery) : ClickPhoto(k)
  \/ \E key \in Keys : KeyDown(key)
  \/ CloseClick
  \/ VisibilityChange
  \/ ApiClose
  \/ ApiNext
  \/ ApiPrevious
  \/ \E index \in GoToIndices : ApiGoTo(index)
  \/ \E i \in 1..MaxTimers : FireTimer(i)

Spec == Init /\ [][Next]_vars

\* the lightbox driven by the user's input alone: clicks, keys, touch
\* gestures, and timers
NextGesture ==
  \/ \E k \in 1..Len(gallery) : ClickPhoto(k)
  \/ \E key \in Keys : KeyDown(key)
  \/ \E pt \in TouchStarts : TouchStart(pt)
  \/ \E pt \in TouchMoves : TouchMove(pt)
  \/ TouchEnd
  \/ CloseClick
  \/ \E i \in 1..MaxTimers : FireTimer(i)

GestureSpec == Init /\ [][NextGesture]_vars

\* the lightbox opened, tabbed through and closed (navigation reads and
\* writes neither the focus nor the listeners of the overlay)
NextFocus ==
  \/ \E src \in ApiSrcs, caption \in ApiCaptions, photos \in ApiPhotoLists :
       \E index \in ApiIndices(photos) : ApiOpen(src, caption, index, photos)
  \/ \E k \in 1..Len(gallery) : ClickPhoto(k)
  \/ \E shiftKey \in BOOLEAN : TabKey(shiftKey)
  \/ CloseClick
  \/ \E i \in 1..MaxTimers : FireTimer(i)

FocusSpec == FocusInit /\ [][NextFocus]_vars

\* the page from load time on: initLightbox, then the user's input
NextStartup ==
  \/ InitLightbox
  \/ \E k \in 1..Len(gallery) : ClickPhoto(k)
  \/ \E key \in Keys : KeyDown(key)
  \/ \E pt \in TouchStarts : TouchStart(pt)
  \/ \E pt \in TouchMoves : TouchMove(pt)
  \/ TouchEnd
  \/ CloseClick
  \/ \E i \in 1..MaxTimers : FireTimer(i)

StartupSpec == StartupInit /\ [][NextStartup]_vars

\* the initialised page, where initialisation may be retried
NextRetry ==
  \/ RetryInit
  \/ \E k \in 1..Len(gallery) : ClickPhoto(k)
  \/ \E key \in Keys : KeyDown(key)
  \/ CloseClick
  \/ BackdropClick
  \/ \E i \in 1..MaxTimers : FireTimer(i)

RetrySpec == Init /\ [][NextRetry]_vars

\* the lightbox driven through lightboxAPI over a mixed item array
NextPreload ==
  \/ \E src \in ApiSrcs, caption \in ApiCaptions, photos \in PreloadPhotoLists :
       \E index \in ApiIndices(photos) : ApiOpen(src, caption, index, photos)
  \/ ApiNext
  \/ ApiPrevious
  \/ \E index \in GoToIndices : ApiGoTo(index)
  \/ ApiClose
  \/ \E i \in 1..MaxTimers : FireTimer(i)

PreloadSpec == Init /\ [][NextPreload]_vars

\* the gallery page from load on: init, category filtering, fetch
\* responses and error notices
NextRender ==
  \/ GalleryInit
  \/ \E c \in Categories : CategoryClick(c)
  \/ \E i \in 1..MaxRenders, ok \in BOOLEAN : FetchResolves(i, ok)
  \/ \E i \in 1..MaxNotices : DismissNotice(i)
  \/ \E i \in 1..MaxNotices : NoticeTimer(i)

RenderSpec == RenderInit /\ [][NextRender]_vars

\* every fetch is answered or times out, and every removal timer fires
RenderFairSpec ==
  /\ RenderSpec
  /\ WF_vars(\E i \in 1..MaxRenders, ok \in BOOLEAN : FetchResolves(i, ok))
  /\ WF_vars(\E i \in 1..MaxNotices : NoticeTimer(i))

\* the rendered gallery page: the lightbox opened from the grid and
\* navigated while the grid is rendered again
NextRerender ==
  \/ \E k \in 1..Len(gallery) : ClickPhoto(k)
  \/ ApiNext
  \/ ApiPrevious
  \/ \E index \in GoToIndices : ApiGoTo(index)
  \/ CloseClick
  \/ \E i \in 1..MaxTimers : FireTimer(i)
  \/ \E c \in Categories : CategoryClick(c)
  \/ ReloadGallery
  \/ \E c \in Categories : Popstate(c)
  \/ \E i \in 1..MaxRenders : FetchResolves(i, TRUE)

RerenderSpec == RerenderInit /\ [][NextRerender]_vars

\* every pending callback eventually runs
FairSpec == Spec /\ WF_vars(FireOldest)

(***************************************************************************)
(* Properties.                                                             *)
(***************************************************************************)
\* the overlay is displayed and marked open
OverlayOpen == "visible" \in classList /\ "hidden" \notin classList

\* C1: whenever the overlay is marked open, the cursor is an index in
\* [0, length) of the stored item list
C1_CursorInRange ==
  isOpen =>
    /\ IsSome(lightboxCurrentIndex)
    /\ IsSome(lightboxPhotos)
    /\ Val(lightboxCurrentIndex) >= 0
    /\ Val(lightboxCurrentIndex) < Len(Val(lightboxPhotos))

\* the cursor is a valid index into n >= 1 stored items
CursorValid ==
  /\ IsSome(lightboxPhotos)
  /\ IsSome(lightboxCurrentIndex)
  /\ Val(lightboxCurrentIndex) \in 0..(Len(Val(lightboxPhotos)) - 1)

C4_GotoOutOfRangeNoOp ==
  [][ \A i \in GoToIndices :
        ((i < 0 \/ i >= getTotalPhotos) /\ ApiGoTo(i)) =>
          /\ UNCHANGED << lightboxCurrentIndex, lightboxPhotos, imageSrc,
                          imageAlt, imageOpacity, captionText, timers,
                          liveRegions >>
          /\ hints' = << >>
          /\ announced' = << >> ]_vars

\* an open overlay over four items where a request has just emitted nothing
C4_Witness ==
  /\ isOpen
  /\ getTotalPhotos = 4
  /\ CursorValid
  /\ hints = << >>
  /\ announced = << >>

\* a callback of the given kind is pending
Pending(kind) == \E i \in 1..Len(timers) : timers[i].kind = kind

\* the last effective open or close was an open: open locks page scroll and
\* only a close that is not a no-op restores it
OpenedLast == bodyOverflow = "hidden"

\* C5: (original statement) an open() that follows a close() wins over that
\* close's deferred hide: once no timer is pending, the overlay is un-hidden
\* and marked open
C5_OpenSupersedesHide ==
  (timers = << >> /\ OpenedLast) => (isOpen /\ "hidden" \notin classList)

\* C6: (original statement) once no image swap is pending, the displayed image
\* source is the one the last open or navigation call asked for
C6_LastCallWins ==
  ~Pending("swap") => imageSrc = requestedSrc

\* C7: (original statement) with no timer pending, page scroll is disabled
\* exactly when the overlay is open
C7_ScrollLockedIffOpen ==
  timers = << >> => (bodyOverflow = "hidden" <=> OverlayOpen)

\* C8: close() on an overlay that is not marked open changes nothing and
\* schedules no timer
C8_CloseWhenClosedNoOp ==
  [][ (~isOpen /\ ApiClose) =>
        /\ UNCHANGED << navVars, domVars, pageVars, initVars, escapeListener,
                        trapListeners, timers, liveRegions, touch >>
        /\ hints' = << >>
        /\ announced' = << >> ]_vars

\* a closed overlay that had been opened, where a request has just emitted
\* nothing and left no timer
C8_Witness ==
  /\ ~isOpen
  /\ "hidden" \in classList
  /\ IsSome(lightboxPhotos)
  /\ bodyOverflow = ""
  /\ timers = << >>
  /\ hints = << >>

\* C9: after close() on an open overlay its hide callback is pending, and then
\* the overlay is eventually hidden with the open marker removed; the delay is
\* 300 ms, or 0 ms under reduced motion
C9_CloseEventuallyHides ==
  /\ Pending("hide") ~> ("hidden" \in classList /\ ~isOpen)
  /\ [](\A i \in 1..Len(timers) :
          timers[i].kind = "hide" =>
            timers[i].delay = IF reducedMotion THEN 0 ELSE 300)

\* an overlay closed by its hide callback, under reduced motion
C9_Witness ==
  /\ reducedMotion
  /\ IsSome(lightboxPhotos)
  /\ "hidden" \in classList
  /\ ~isOpen
  /\ ~Pending("hide")
  /\ bodyOverflow = ""

NavigationKeys == { "ArrowLeft", "ArrowRight", "Home", "End" }

\* C10: (original statement) between a close() and the next open(), no
\* navigation key press and no swipe changes the cursor
C10_NoNavigationAfterClose ==
  [][ (/\ IsSome(lightboxPhotos)
       /\ ~OpenedLast
       /\ \/ \E key \in NavigationKeys : KeyDown(key)
          \/ TouchEnd) =>
        UNCHANGED lightboxCurrentIndex ]_vars

\* C11: (original statement) while the overlay is closed (here: after an open
\* that left a valid cursor), next(), previous() and goto() called through the
\* public API change neither the cursor nor the item list
C11_ClosedNavigationNoOp ==
  [][ (/\ ~isOpen
       /\ "hidden" \in classList
       /\ CursorValid
       /\ \/ ApiNext
          \/ ApiPrevious
          \/ \E i \in GoToIndices : ApiGoTo(i)) =>
        UNCHANGED << lightboxCurrentIndex, lightboxPhotos >> ]_vars

\* C12: while the overlay is open with n >= 1 items, a key press has exactly
\* the effect of the mapped operation: ArrowLeft = previous(), ArrowRight =
\* next(), Home = goto(0), End = goto(n-1), Escape = close(); any other key
\* leaves cursor and visibility unchanged
C12_KeyMapping ==
  [][ \A key \in Keys :
        (isOpen /\ getTotalPhotos >= 1 /\ KeyDown(key)) =>
          CASE key = "ArrowLeft" -> ApiPrevious
            [] key = "ArrowRight" -> ApiNext
            [] key = "Home" -> ApiGoTo(0)
            [] key = "End" -> ApiGoTo(getTotalPhotos - 1)
            [] key = "Escape" -> ApiClose
            [] OTHER -> UNCHANGED << lightboxCurrentIndex, classList >> ]_vars

\* the overlay displayed over four items, the cursor just moved to the last
\* one and its image swap still pending
C12_Witness ==
  /\ OverlayOpen
  /\ getTotalPhotos = 4
  /\ lightboxCurrentIndex = Some(3)
  /\ Pending("swap")
  /\ announced = << AnnounceMessage(3, 4, ItemCaption(Val(lightboxPhotos)[4])) >>

\* C13: (original statement) releasing a touch that started at (x0, y0) and
\* was last at (x1, y1) triggers exactly one navigation iff |x1-x0| > 50 and
\* |x1-x0| > |y1-y0|, previous() when x1-x0 > 0 and next() when x1-x0 < 0,
\* and no navigation otherwise
C13_SwipeNavigates ==
  [][ TouchEnd =>
        LET deltaX == touch.currentX - touch.startX
            deltaY == touch.currentY - touch.startY
            Abs(x) == IF x < 0 THEN -x ELSE x
        IN IF Abs(deltaX) > 50 /\ Abs(deltaX) > Abs(deltaY)
           THEN IF deltaX > 0
                THEN Becomes(navigatePrevious(Fresh))
                ELSE Becomes(navigateNext(Fresh))
           ELSE Becomes(Fresh) ]_vars

\* C14: (original statement) after a click on a gallery item p that contains
\* an image, the overlay is open, the stored item list is the gallery items
\* having an image source, in document order, and the item at the cursor is p
C14_ClickOpensAtItem ==
  [][ \A k \in 1..Len(gallery) :
        (HasImg(gallery[k]) /\ ClickPhoto(k)) =>
          /\ isOpen'
          /\ "hidden" \notin classList'
          /\ lightboxPhotos' =
               Some(SelectSeq(gallery,
                              LAMBDA p : HasImg(p) /\ ItemSrc(p) # ""))
          /\ IsSome(lightboxCurrentIndex')
          /\ Val(lightboxCurrentIndex') \in 0..(Len(Val(lightboxPhotos')) - 1)
          /\ Val(lightboxPhotos')[Val(lightboxCurrentIndex') + 1] = gallery[k]
    ]_vars

\* the pending callbacks of the given kind, oldest first
PendingOf(queue, kind) == SelectSeq(queue, LAMBDA t : t.kind = kind)

\* C15: open() called while the overlay is already open replaces the stored
\* items, cursor, image and caption with the new arguments without passing
\* through Closed: the overlay stays displayed and marked open and no hide
\* timer is scheduled
C15_ReopenReplaces ==
  [][ \A src \in ApiSrcs, caption \in ApiCaptions, photos \in ApiPhotoLists :
        \A index \in ApiIndices(photos) :
          (OverlayOpen /\ ApiOpen(src, caption, index, photos)) =>
            /\ lightboxPhotos' = Some(photos)
            /\ lightboxCurrentIndex' = Some(index)
            /\ imageSrc' = src
            /\ imageAlt' = caption
            /\ captionText' = caption
            /\ OverlayOpen'
            /\ PendingOf(timers', "hide") = PendingOf(timers, "hide")
            /\ timers' = Append(timers, [kind |-> "fadeIn", delay |-> 10,
                                         src |-> "", alt |-> ""]) ]_vars

\* an overlay opened a second time while the fade-in of the first opening was
\* still pending, with no close in between
C15_Witness ==
  /\ ~reducedMotion
  /\ OverlayOpen
  /\ Len(PendingOf(timers, "fadeIn")) = 2
  /\ ~Pending("hide")
  /\ lightboxPhotos = Some(<< 3 >>)
  /\ imageSrc = ItemSrc(3)

\* C16: after open() on an overlay with focusable descendants f1..fk, k >= 1,
\* focus is on f1; while open, Tab on fk moves focus to f1 and Shift+Tab on
\* f1 moves it to fk, so that focus is on one of f1..fk whenever the overlay
\* is open, however many times the lightbox has been opened
C16_FocusTrapped ==
  [][ /\ (activeElement' # focusables[1] =>
             ~(\/ \E src \in ApiSrcs, caption \in ApiCaptions,
                    photos \in ApiPhotoLists :
                    \E index \in ApiIndices(photos) :
                      ApiOpen(src, caption, index, photos)
               \/ \E k \in 1..Len(gallery) :
                    HasImg(gallery[k]) /\ ClickPhoto(k)))
      /\ ((isOpen /\ activeElement = focusables[Len(focusables)]
              /\ TabKey(FALSE)) =>
             activeElement' = focusables[1])
      /\ ((isOpen /\ activeElement = focusables[1] /\ TabKey(TRUE)) =>
             activeElement' = focusables[Len(focusables)])
      /\ (isOpen' =>
             \E i \in 1..Len(focusables) : activeElement' = focusables[i])
    ]_vars

\* focus on the last of three focusable descendants of an overlay that has
\* been opened twice
C16_Witness ==
  /\ isOpen
  /\ Len(focusables) = 3
  /\ trapListeners = 2
  /\ activeElement = focusables[3]

\* the .photo-item element p as a value of document.activeElement
PhotoItemElement(p) ==
  CASE p = 1 -> "photo-item-1" [] p = 2 -> "photo-item-2"
    [] p = 3 -> "photo-item-3" [] p = 4 -> "photo-item-4"
    [] p = 5 -> "photo-item-5" [] OTHER -> "photo-item-6"

\* C17: (original statement) after the lightbox is opened by a click on
\* gallery item p and then closed, keyboard focus is on p.  Without
\* navigation the item list of a click (four items) and the image reference
\* last asked for identify p
C17_FocusReturnsToOpener ==
  [][ \A k \in 1..Len(gallery) :
        (/\ isOpen
         /\ getTotalPhotos = 4
         /\ HasImg(gallery[k])
         /\ ItemSrc(gallery[k]) = requestedSrc
         /\ CloseClick) =>
          activeElement' = PhotoItemElement(gallery[k]) ]_vars

\* the announcement 'Image j+1 of n: <caption of item j>' for the cursor j
\* the step leaves
AnnouncementOfCursor ==
  AnnounceMessage(getCurrentIndex', getTotalPhotos,
                  ItemCaption(Val(lightboxPhotos)[getCurrentIndex' + 1]))

\* C18: a goto/next/previous that sets the cursor to index j over n items
\* emits exactly one live-region announcement 'Image j+1 of n: <caption of
\* item j>', and a navigation that is a no-op emits none
C18_NavigationAnnounces ==
  [][ /\ \A i \in GoToIndices :
           ApiGoTo(i) =>
             IF i >= 0 /\ i < getTotalPhotos
             THEN /\ getCurrentIndex' = i
                  /\ announced' = << AnnouncementOfCursor >>
                  /\ liveRegions' = liveRegions + 1
                  /\ Len(PendingOf(timers', "announce")) =
                       Len(PendingOf(timers, "announce")) + 1
             ELSE /\ announced' = << >>
                  /\ liveRegions' = liveRegions
                  /\ timers' = timers
      /\ (ApiNext \/ ApiPrevious) =>
           IF getTotalPhotos >= 1
           THEN /\ announced' = << AnnouncementOfCursor >>
                /\ liveRegions' = liveRegions + 1
                /\ Len(PendingOf(timers', "announce")) =
                     Len(PendingOf(timers, "announce")) + 1
           ELSE /\ announced' = << >>
                /\ liveRegions' = liveRegions
                /\ timers' = timers ]_vars

\* the second of four items just announced, its live region in the document
C18_Witness ==
  /\ getTotalPhotos = 4
  /\ lightboxCurrentIndex = Some(1)
  /\ announced = << AnnounceMessage(1, 4, ItemCaption(2)) >>
  /\ liveRegions >= 1
  /\ Pending("announce")

\* C19: next() and previous() are no-ops when the stored item list is empty
\* or was never set: cursor, displayed image and caption are unchanged and
\* no announcement or preload hint is issued
C19_EmptyListNavigationNoOp ==
  [][ (getTotalPhotos = 0 /\ (ApiNext \/ ApiPrevious)) =>
        /\ UNCHANGED << lightboxCurrentIndex, lightboxPhotos, imageSrc,
                        imageAlt, imageOpacity, captionText, timers,
                        liveRegions >>
        /\ hints' = << >>
        /\ announced' = << >> ]_vars

\* an overlay opened on an empty item list and faded in, where the last
\* request emitted nothing
C19_Witness ==
  /\ OverlayOpen
  /\ lightboxPhotos = Some(<< >>)
  /\ lightboxCurrentIndex = Some(0)
  /\ flexOpacity
  /\ timers = << >>
  /\ hints = << >>
  /\ announced = << >>

\* C20: if any of the overlay, image, caption or close-control elements is
\* missing when initLightbox runs, it registers no listener, and afterwards
\* no click, key or touch event opens the lightbox or changes the cursor or
\* the item list
C20_FailedInitDisables ==
  [][ present # RequiredElements =>
        /\ listenerSets' = 0
        /\ ~isOpen'
        /\ "hidden" \in classList'
        /\ UNCHANGED << lightboxCurrentIndex, lightboxPhotos >> ]_vars

\* initLightbox has run on a document without the overlay element, and a
\* touch on the image is in progress afterwards
C20_Witness ==
  /\ present = RequiredElements \ {"lightbox"}
  /\ initCalls = 1
  /\ listenerSets = 0
  /\ touch.active
  /\ lightboxPhotos = None

\* C21: (original statement) at most one deferred hide is pending at any
\* time: a close gesture that arrives while the fade-out of a previous close
\* is still in progress schedules no second hide timer and repeats no close
\* side effect
C21_SingleHidePending ==
  [][ (/\ Pending("hide")
       /\ ~OpenedLast
       /\ \/ ApiClose
          \/ CloseClick
          \/ KeyDown("Escape")) =>
        /\ Len(PendingOf(timers', "hide")) <= 1
        /\ UNCHANGED << timers, classList, flexOpacity, bodyOverflow,
                        escapeListener, activeElement >> ]_vars

\* C22: (original statement) after the gallery init has run any number of
\* times, one ArrowRight or ArrowLeft press moves the cursor by exactly one
\* position and one gallery click performs exactly one open
C22_InitIdempotent ==
  [][ /\ (isOpen /\ CursorValid /\ KeyDown("ArrowRight")) =>
           getCurrentIndex' = (getCurrentIndex + 1) % getTotalPhotos
      /\ (isOpen /\ CursorValid /\ KeyDown("ArrowLeft")) =>
           getCurrentIndex' =
             (getCurrentIndex - 1 + getTotalPhotos) % getTotalPhotos
      /\ \A k \in 1..Len(gallery) :
           (HasImg(gallery[k]) /\ ClickPhoto(k)) =>
             Becomes(photoClick(Fresh, gallery[k])) ]_vars


\* C24: (original statement) at most one focus-trap Tab listener is
\* registered on the overlay at any time, and none once the last effective
\* request was a close: close() deregisters the listener open() added
C24_SingleTrapListener ==
  /\ trapListeners <= 1
  /\ ~OpenedLast => trapListeners = 0


\* the indices next to cursor i whose item carries an image reference
PreloadTargets(i, items) ==
  { j \in { i - 1, i + 1, i + 2 } :
      /\ j >= 0
      /\ j < Len(items)
      /\ HasImg(items[j + 1])
      /\ ItemSrc(items[j + 1]) # "" }

\* C28: an open, and a navigation that moves the cursor, to index i of n
\* items issues one preload hint for each index of {i-1, i+1, i+2} within
\* [0, n) whose item has a source, and no other hint: none for i itself and
\* none for an index out of bounds
C28_PreloadWindow ==
  [][ (\/ \E src \in ApiSrcs, caption \in ApiCaptions,
             photos \in PreloadPhotoLists :
             \E index \in ApiIndices(photos) :
               ApiOpen(src, caption, index, photos)
       \/ /\ (ApiNext \/ ApiPrevious \/ \E index \in GoToIndices : ApiGoTo(index))
          /\ announced' # << >>) =>
        LET items == Val(lightboxPhotos')
            targets == PreloadTargets(Val(lightboxCurrentIndex'), items)
        IN /\ Len(hints') = Cardinality(targets)
           /\ { hints'[k] : k \in 1..Len(hints') } =
                { ItemSrc(items[j + 1]) : j \in targets } ]_vars

\* the cursor is on index 2 of the mixed array, whose neighbours 1 and 3
\* have no source: the one hint issued is that of index 4
C28_Witness ==
  /\ isOpen
  /\ lightboxPhotos = Some(<<1, 5, 2, 6, 3, 4>>)
  /\ lightboxCurrentIndex = Some(2)
  /\ announced # << >>
  /\ hints = << ItemSrc(3) >>


\* C29: (original statement) whenever the overlay is hidden and no timer is
\* pending, neither the overlay nor its container carries the fade-in
\* opacity marker: a fade-in scheduled by open() takes no effect after a
\* later close()
C29_NoFadeInAfterClose ==
  ("hidden" \in classList /\ timers = << >>) =>
    /\ "opacity-100" \notin classList
    /\ ~flexOpacity


\* C23: (original statement) once every fetch of the overlapping
\* renderGallery calls has completed, none of them having failed, the grid
\* shows the photos of the category in the URL, the one selected last,
\* whatever order the responses arrived in
C23_LastSelectionShown ==
  (renders = << >> /\ notices = << >> /\ initOutcome = "success") =>
    /\ grid = (IF CategoryPhotos(category) = << >> THEN "empty" ELSE "photos")
    /\ gallery = CategoryPhotos(category)


\* C25: (original statement) whenever a renderGallery call has put the
\* 'Loading photos...' indicator into the grid, the grid eventually shows
\* the rendered photos or the empty-category message instead, whether the
\* photo fetch succeeds or fails
C25_LoadingEventuallyReplaced ==
  (grid = "loading") ~> (grid \in { "photos", "empty" })


\* the rendering started by init's initRendering call is still fetching
InitRenderPending == \E i \in 1..Len(renders) : renders[i].byInit

\* C26: (original statement) init has run initLoadMore and reported success
\* only once the rendering started by its initRendering call has completed
\* and the grid has left its loading state, and when that rendering fails
\* init's error handler runs: init reports failure and shows its notice
C26_InitAwaitsRendering ==
  /\ [](initOutcome = "success" => (~InitRenderPending /\ grid # "loading"))
  /\ [][ \A i \in 1..Len(renders) :
           (renders[i].byInit /\ FetchResolves(i, FALSE)) =>
             /\ initOutcome' = "failed"
             /\ \E k \in 1..Len(notices') : notices'[k].kind = "init" ]_vars


\* the notice with this id is on screen
NoticeShown(id) ==
  \E i \in 1..Len(notices) : notices[i].id = id /\ notices[i].attached

\* C30: every error notice on screen, whether of a load failure (5 s) or of
\* an initialisation failure (10 s), is eventually removed from the page,
\* and remove() runs on it at most once, also when the user dismissed it
\* before its timer fired
C30_NoticeRemovedOnce ==
  /\ [](\A i \in 1..Len(notices) : notices[i].removeCalls <= 1)
  /\ \A id \in NoticeIds : NoticeShown(id) ~> ~NoticeShown(id)

\* two load-failure notices are gone: the timer of one fired after the user
\* had dismissed it, the other was removed by its timer
C30_Witness ==
  /\ Len(notices) = 2
  /\ \E i \in 1..2 :
       /\ notices[i].dismissed
       /\ ~notices[i].timer
       /\ notices[i].removeCalls = 1
  /\ \E i \in 1..2 :
       /\ ~notices[i].dismissed
       /\ ~notices[i].attached
       /\ notices[i].removeCalls = 1


\* the .photo-item elements of the grid that carry an image reference
RenderedPhotoItems ==
  SelectSeq(gallery, LAMBDA item : HasImg(item) /\ ItemSrc(item) # "")

\* C27: (original statement) once the gallery has been rendered again and
\* shows its photos, the item list that next, previous and goTo navigate is
\* the list of the items now in the grid, never that of an earlier rendering
C27_NavigatesCurrentRendering ==
  [][ (/\ grid = "photos"
       /\ renders = << >>
       /\ IsSome(lightboxPhotos)
       /\ Val(lightboxPhotos) # RenderedPhotoItems
       /\ (ApiNext \/ ApiPrevious \/ \E index \in GoToIndices : ApiGoTo(index))) =>
        announced' = << >> ]_vars

====
